---- MODULE Spec2Model ----
(***************************************************************************)
(* A model of the interactive shell of src/src/main.rs: the REPL driver    *)
(* (main), the chain parser (parse_cmds, parse_command), the session       *)
(* (CommandRunner::run) and the process executor (Command::execute).       *)
(*                                                                         *)
(* An input line is a sequence of lexical tokens: a token is either one    *)
(* separator character (" ", "\n", ";", "|") or one whole word (a maximal  *)
(* run of non-whitespace, non-separator characters).  The lines drawn as   *)
(* inputs never put two words next to each other.                          *)
(***************************************************************************)
EXTENDS Integers, Sequences, FiniteSets, TLC

VARIABLES
    pc,        \* position of main: "Prompt", "ReadLine", "Parse", "Dispatch", "Terminated"
    pwd,       \* CommandRunner.pwd
    history,   \* CommandRunner.history
    buf,       \* the line last read by parse_cmds
    chains,    \* the Vec<CommandChain> handed to run
    idx,       \* index of the next chain element of the for loop of run
    printed,   \* what was written to standard output since the last prompt
    spawned,   \* the children spawned since the last prompt, with their results
    term,      \* "none", "exit" (std::process::exit) or "err" (main returned Err)
    exitCode,  \* the exit code of the process once term # "none"
    nlines,    \* number of lines read so far
    eof,       \* the standard input is exhausted
    \* one call of Command::execute, step by step
    xpc,       \* position of the parent in execute
    toWrite,   \* the bytes of `input` that write_all has not written yet
    stdinPipe, \* the bytes in the pipe to the standard input of the child
    stdinOpen, \* the parent holds the write end of that pipe (ChildStdin)
    stdoutPipe,\* the bytes in the pipe from the standard output of the child
    collected, \* the bytes wait_with_output has read so far
    xinput,    \* the `input` argument of execute
    child,     \* the child process: its program, position and life cycle
    xres       \* the result of execute

xvars == <<xpc, toWrite, stdinPipe, stdinOpen, stdoutPipe, collected, xinput,
           child, xres>>

vars == <<pc, pwd, history, buf, chains, idx, printed, spawned, term, exitCode,
          nlines, eof, xvars>>

(***************************************************************************)
(* Bounds                                                                  *)
(***************************************************************************)
MaxLines == 2      \* lines read in one session
MaxSegs == 2       \* `;`-separated segments per generated line
PipeCap == 1       \* bytes an operating system pipe holds before a write blocks

(***************************************************************************)
(* Program constants                                                       *)
(***************************************************************************)
PROMPT == "> "
I32_MAX == 2147483647
ERR_EXIT == 1      \* exit code of a Rust main that returns Err

(***************************************************************************)
(* Sequence helpers                                                        *)
(***************************************************************************)
Last(s) == s[Len(s)]
Front(s) == SubSeq(s, 1, Len(s) - 1)

IsSpace(t) == t \in {" ", "\n", "\t"}

RECURSIVE TrimStart(_)
TrimStart(s) ==
    IF s # <<>> /\ IsSpace(Head(s)) THEN TrimStart(Tail(s)) ELSE s

RECURSIVE TrimEnd(_)
TrimEnd(s) ==
    IF s # <<>> /\ IsSpace(Last(s)) THEN TrimEnd(Front(s)) ELSE s

\* str::trim
Trim(s) == TrimEnd(TrimStart(s))

\* str::split(sep): n separators give n + 1 pieces, the empty string gives one
RECURSIVE SplitFrom(_, _, _)
SplitFrom(s, sep, cur) ==
    IF s = <<>> THEN <<cur>>
    ELSE IF Head(s) = sep THEN <<cur>> \o SplitFrom(Tail(s), sep, <<>>)
    ELSE SplitFrom(Tail(s), sep, Append(cur, Head(s)))

Split(s, sep) == SplitFrom(s, sep, <<>>)

\* a split that keeps the trailing empty piece
SplitKeepLast(s, sep) == Split(s, sep)

\* str::split_terminator(sep): as split, without a trailing empty piece
SplitTerminator(s, sep) ==
    LET p == Split(s, sep)
    IN  IF Last(p) = <<>> THEN Front(p) ELSE p

\* str::split_whitespace: the words of s (each word is one token)
SplitWhitespace(s) == SelectSeq(s, LAMBDA t : ~IsSpace(t))

\* [String]::join(sep)
RECURSIVE JoinWith(_, _)
JoinWith(ws, sep) ==
    IF ws = <<>> THEN <<>>
    ELSE IF Len(ws) = 1 THEN <<ws[1]>>
    ELSE <<ws[1], sep>> \o JoinWith(Tail(ws), sep)

(***************************************************************************)
(* Command, CommandChain                                                   *)
(***************************************************************************)
Command(bin, args) == [bin |-> bin, args |-> args]

\* impl Display for Command: "{} {}", bin, args.join(" ")
Display(command) == <<command.bin, " ">> \o JoinWith(command.args, " ")

ChainCommand(command) == [tag |-> "Command", cmds |-> <<command>>]
ChainPiped(cmd1, cmd2) == [tag |-> "Piped", cmds |-> <<cmd1, cmd2>>]

ParseErr == [ok |-> FALSE, val |-> <<>>]
ParseOk(v) == [ok |-> TRUE, val |-> v]

\* parse_command
parse_command(cmd1) ==
    LET parts == SplitWhitespace(cmd1)
    IN  IF parts = <<>> THEN ParseErr
        ELSE ParseOk(Command(Head(parts), Tail(parts)))

\* the body of the for loop of parse_cmds for one raw_command
parse_raw_command(raw_command) ==
    LET splitted == Split(raw_command, "|")
    IN  IF Len(splitted) = 2
        THEN LET c1 == parse_command(splitted[1])
                 c2 == parse_command(splitted[2])
             IN  IF ~c1.ok THEN ParseErr
                 ELSE IF ~c2.ok THEN ParseErr
                 ELSE ParseOk(ChainPiped(c1.val, c2.val))
        ELSE IF Len(splitted) = 1
        THEN LET c == parse_command(splitted[1])
             IN  IF ~c.ok THEN ParseErr ELSE ParseOk(ChainCommand(c.val))
        ELSE ParseErr

\* a parse_cmds that keeps the commands parsed before the first error
RECURSIVE parse_loop_partial(_, _)
parse_loop_partial(raw_commands, commands) ==
    IF raw_commands = <<>> THEN ParseOk(commands)
    ELSE LET r == parse_raw_command(Head(raw_commands))
         IN  IF ~r.ok THEN ParseOk(commands)
             ELSE parse_loop_partial(Tail(raw_commands), Append(commands, r.val))

\* the for loop of parse_cmds: the first error is returned
RECURSIVE parse_loop(_, _)
parse_loop(raw_commands, commands) ==
    IF raw_commands = <<>> THEN ParseOk(commands)
    ELSE LET r == parse_raw_command(Head(raw_commands))
         IN  IF ~r.ok THEN ParseErr
             ELSE parse_loop(Tail(raw_commands), Append(commands, r.val))

\* parse_cmds, applied to the line that read_line put into buf
parse_cmds(line) ==
    parse_loop(SplitTerminator(Trim(line), ";"), <<>>)

(***************************************************************************)
(* The input lines                                                         *)
(***************************************************************************)
Segments ==
    { <<"echo", " ", "a">>,
      <<"cd", " ", "a">>,
      <<"cd", " ", "nx">>,
      <<"cd", " ", "..">>,
      <<"cd">>,
      <<"cd", " ", "a", " ", "b">>,
      <<"exit">>,
      <<"exit", " ", "3">>,
      <<"exit", " ", "x">>,
      <<"exit", " ", "2147483648">>,
      <<"history">>,
      <<"echo", " ", "a", " ", "|", " ", "wc">>,
      <<"cd", " ", "a", "|", "exit">>,
      <<"exit", " ", "3", "|", "history">>,
      <<" ">>,
      <<"a", "|", "b", "|", "c">> }

RECURSIVE JoinSegs(_)
JoinSegs(segs) ==
    IF segs = <<>> THEN <<>>
    ELSE IF Len(segs) = 1 THEN segs[1]
    ELSE segs[1] \o <<";">> \o JoinSegs(Tail(segs))

\* the segments that lines of several segments are made of
CoreSegments ==
    { <<"echo", " ", "a">>,
      <<"cd", " ", "a">>,
      <<"exit", " ", "3">>,
      <<"history">> }

\* the empty line, every segment alone, and up to MaxSegs core segments
SegSeqs ==
    {<<>>} \cup { <<seg>> : seg \in Segments }
           \cup UNION { [1..n -> CoreSegments] : n \in 2..MaxSegs }

\* lines with a trailing `;`, surrounding blanks, an empty segment, a
\* half-empty pipe, a failing builtin before another element, a pipe before
\* and after another element, three segments
ExtraLines ==
    { <<" ", "echo", " ", "a", ";", " ", "\n">>,
      <<"echo", " ", "a", "|", "wc", ";", "echo", " ", "a", "\n">>,
      <<"history", ";", "echo", " ", "a", " ", "|", " ", "wc", "\n">>,
      <<"cd", " ", "nx", ";", "echo", " ", "a", "\n">>,
      <<"exit", " ", "x", ";", "echo", " ", "a", "\n">>,
      <<"echo", " ", "a", ";", "exit", " ", "3", ";", "echo", " ", "a", "\n">>,
      <<"echo", " ", "a", ";", ";", "history", "\n">>,
      <<";", "\n">>,
      <<"echo", " ", "a", ";", "a", "|", "b", "|", "c", "\n">>,
      <<"echo", " ", "a", ";", "echo", " ", "|", "\n">> }

Lines == { JoinSegs(ss) \o <<"\n">> : ss \in SegSeqs } \cup ExtraLines

(***************************************************************************)
(* The environment: file system, integer parsing, child processes          *)
(***************************************************************************)
StartDir == "/"

CanonErr == "canonicalize-error"

\* self.pwd.join(path).canonicalize() in a file system whose directories
\* are "/" and "/a"
Canonicalize(dir, path) ==
    IF path = "a" /\ dir = "/" THEN "/a"
    ELSE IF path = ".." THEN "/"
    ELSE IF path = "/" THEN "/"
    ELSE CanonErr

\* the decimal literals of the input lines, as <<high digits, low five digits>>
Literals == {"0", "3", "2147483648"}

LiteralParts(t) ==
    IF t = "0" THEN <<0, 0>>
    ELSE IF t = "3" THEN <<0, 3>>
    ELSE <<21474, 83648>>

\* str::parse::<i32>: a decimal literal that fits 32 bits
ParseI32(t) ==
    IF /\ t \in Literals
       /\ \/ LiteralParts(t)[1] < I32_MAX \div 100000
          \/ /\ LiteralParts(t)[1] = I32_MAX \div 100000
             /\ LiteralParts(t)[2] <= I32_MAX % 100000
    THEN [ok |-> TRUE, val |-> LiteralParts(t)[1] * 100000 + LiteralParts(t)[2]]
    ELSE [ok |-> FALSE, val |-> 0]

\* byte strings a child can write to its standard output, one token a byte;
\* "0xFF" is a byte that occurs in no UTF-8 text
ChildOutputs == { <<>>, <<"a", "\n">>, <<"0xFF">> }

\* String::from_utf8(bytes).is_ok() on these byte strings
IsUtf8(bytes) == \A i \in 1..Len(bytes) : bytes[i] # "0xFF"

NoInput == <<"None">>
SomeInput(bytes) == <<"Some", bytes>>

\* an execute that returns the output without waiting for the child
ExecResults_nowait ==
    { [tag |-> "SpawnErr", out |-> <<>>, child |-> "none"],
      [tag |-> "IoErr", out |-> <<>>, child |-> "exited"] }
      \cup { [tag |-> "Ok", out |-> o, child |-> "running"] : o \in ChildOutputs }

\* the possible results of Command::execute, with the state in which it
\* leaves the child: not spawned ("none"), waited for ("reaped"), or
\* terminated and not waited for ("exited")
ExecResults ==
    { [tag |-> "SpawnErr", out |-> <<>>, child |-> "none"],
      [tag |-> "IoErr", out |-> <<>>, child |-> "exited"] }
      \cup { [tag |-> "Ok", out |-> o, child |-> "reaped"] : o \in ChildOutputs }

ExecRecord(command, cwd, input, res) ==
    [cmd |-> command, cwd |-> cwd, input |-> input, res |-> res]

\* a child: its program, its life cycle ("none", "running", "exited" and
\* not waited for, "reaped"), the bytes it has read from its standard input,
\* whether it has seen the end of input, the bytes it has still to write
ChildProc(kind, life, got, sawEof, out) ==
    [kind |-> kind, life |-> life, got |-> got, sawEof |-> sawEof, out |-> out]

NoChild == ChildProc("none", "none", <<>>, FALSE, <<>>)

\* no call of execute is followed step by step
NoExecute ==
    /\ xpc = "idle"
    /\ toWrite = <<>>
    /\ stdinPipe = <<>>
    /\ stdinOpen = FALSE
    /\ stdoutPipe = <<>>
    /\ collected = <<>>
    /\ xinput = NoInput
    /\ child = NoChild
    /\ xres = "none"

(***************************************************************************)
(* Initial state: CommandRunner::new and the entry of the loop of main     *)
(***************************************************************************)
Init ==
    /\ pc = "Prompt"
    /\ pwd = StartDir
    /\ history = <<>>
    /\ buf = <<>>
    /\ chains = <<>>
    /\ idx = 1
    /\ printed = <<>>
    /\ spawned = <<>>
    /\ term = "none"
    /\ exitCode = 0
    /\ nlines = 0
    /\ eof = FALSE
    /\ NoExecute

\* main returns Err: the process ends with exit code 1
MainErr ==
    /\ pc' = "Terminated"
    /\ term' = "err"
    /\ exitCode' = ERR_EXIT

\* std::process::exit(code)
ProcessExit(code) ==
    /\ pc' = "Terminated"
    /\ term' = "exit"
    /\ exitCode' = code

(***************************************************************************)
(* main: show_prompt()?                                                    *)
(***************************************************************************)
ShowPrompt ==
    /\ UNCHANGED xvars
    /\ UNCHANGED eof
    /\ pc = "Prompt"
    /\ nlines < MaxLines \/ eof
    /\ pc' = "ReadLine"
    /\ printed' = <<PROMPT>>
    /\ spawned' = <<>>
    /\ UNCHANGED <<pwd, history, buf, chains, idx, term, exitCode, nlines>>

\* flushing standard output fails: show_prompt()? makes main return Err
ShowPromptFail ==
    /\ UNCHANGED xvars
    /\ UNCHANGED eof
    /\ pc = "Prompt"
    /\ nlines < MaxLines \/ eof
    /\ MainErr
    /\ UNCHANGED <<pwd, history, buf, chains, idx, printed, spawned, nlines>>

(***************************************************************************)
(* parse_cmds: read_line                                                   *)
(***************************************************************************)
ReadLine ==
    /\ UNCHANGED xvars
    /\ UNCHANGED eof
    /\ pc = "ReadLine"
    /\ ~eof
    /\ \E line \in Lines : buf' = line
    /\ pc' = "Parse"
    /\ nlines' = nlines + 1
    /\ UNCHANGED <<pwd, history, chains, idx, printed, spawned, term, exitCode>>

\* end of input, now and at every later read: read_line returns Ok(0) and
\* buf stays empty
ReadEof ==
    /\ UNCHANGED xvars
    /\ pc = "ReadLine"
    /\ eof' = TRUE
    /\ buf' = <<>>
    /\ pc' = "Parse"
    /\ UNCHANGED <<pwd, history, chains, idx, printed, spawned, term, exitCode, nlines>>

\* read_line fails: parse_cmds returns Err and main continues the loop
ReadFail ==
    /\ UNCHANGED xvars
    /\ UNCHANGED eof
    /\ pc = "ReadLine"
    /\ ~eof
    /\ buf' = <<>>
    /\ pc' = "Prompt"
    /\ nlines' = nlines + 1
    /\ UNCHANGED <<pwd, history, chains, idx, printed, spawned, term, exitCode>>

(***************************************************************************)
(* parse_cmds: the parse, and the let-else of main                         *)
(***************************************************************************)
Parse ==
    /\ UNCHANGED xvars
    /\ UNCHANGED eof
    /\ pc = "Parse"
    /\ LET r == parse_cmds(buf)
       IN  IF r.ok
           THEN /\ chains' = r.val
                /\ idx' = 1
                /\ pc' = "Dispatch"
           ELSE /\ pc' = "Prompt"
                /\ UNCHANGED <<chains, idx>>
    /\ UNCHANGED <<pwd, history, buf, printed, spawned, term, exitCode, nlines>>

(***************************************************************************)
(* CommandRunner::run: one iteration of `for chain in chains`              *)
(***************************************************************************)
AtElement ==
    /\ pc = "Dispatch"
    /\ idx <= Len(chains)

chain == chains[idx]
command == chain.cmds[1]

\* the end of an iteration whose arm did not leave run
NextElement ==
    /\ idx' = idx + 1
    /\ UNCHANGED <<pc, term, exitCode>>

\* an arm left run with `?` or `return Err`: runner.run(commands)? in main
RunErr ==
    /\ MainErr
    /\ UNCHANGED idx

\* a print step that propagates the error of execute with `?`
print_output_strict(res) ==
    IF res.tag = "Ok"
    THEN IF IsUtf8(res.out) THEN [fail |-> FALSE, text |-> res.out]
                            ELSE [fail |-> TRUE, text |-> <<>>]
    ELSE [fail |-> TRUE, text |-> <<>>]

\* `if let Ok(Some(output)) = output { print!("{}", String::from_utf8(output)?) }`
\* applied to the result of execute: what is printed, and whether `?` leaves run
print_output(res) ==
    IF res.tag = "Ok"
    THEN IF IsUtf8(res.out) THEN [fail |-> FALSE, text |-> res.out]
                            ELSE [fail |-> TRUE, text |-> <<>>]
    ELSE [fail |-> FALSE, text |-> <<>>]

\* a listing that leaves out the newest entry
RECURSIVE history_listing_prior(_)
history_listing_prior(h) ==
    IF Len(h) <= 1 THEN <<>>
    ELSE Head(h) \o <<"\n">> \o history_listing_prior(Tail(h))

\* the lines println! writes in the `history` arm for the history vector h
RECURSIVE history_listing(_)
history_listing(h) ==
    IF h = <<>> THEN <<>>
    ELSE Head(h) \o <<"\n">> \o history_listing(Tail(h))

\* an `exit` arm whose default code is 1
exit_code_one(args) ==
    IF args = <<>> THEN [ok |-> TRUE, val |-> 1] ELSE ParseI32(args[1])

\* the exit code computed by the `exit` arm
exit_code(args) ==
    IF args = <<>> THEN [ok |-> TRUE, val |-> 0] ELSE ParseI32(args[1])

\* the entries run pushes to history for a chain element before it runs it
history_push(c) ==
    IF c.tag = "Command" THEN <<Display(c.cmds[1])>> ELSE <<>>

\* a `cd` arm that assigns the joined path before it canonicalizes it
RunCd_eager ==
    /\ UNCHANGED xvars
    /\ UNCHANGED eof
    /\ AtElement
    /\ chain.tag = "Command"
    /\ command.bin = "cd"
    /\ history' = history \o history_push(chain)
    /\ IF command.args = <<>>
       THEN /\ RunErr
            /\ UNCHANGED pwd
       ELSE LET target == Canonicalize(pwd, command.args[1])
            IN  IF target = CanonErr
                THEN /\ RunErr
                     /\ pwd' = "not canonical"
                ELSE /\ pwd' = target
                     /\ NextElement
    /\ UNCHANGED <<buf, chains, printed, spawned, nlines>>

RunCd ==
    /\ UNCHANGED xvars
    /\ UNCHANGED eof
    /\ AtElement
    /\ chain.tag = "Command"
    /\ command.bin = "cd"
    /\ history' = history \o history_push(chain)
    /\ IF command.args = <<>>
       THEN /\ RunErr
            /\ UNCHANGED pwd
       ELSE LET target == Canonicalize(pwd, command.args[1])
            IN  IF target = CanonErr
                THEN /\ RunErr
                     /\ UNCHANGED pwd
                ELSE /\ pwd' = target
                     /\ NextElement
    /\ UNCHANGED <<buf, chains, printed, spawned, nlines>>

RunExit ==
    /\ UNCHANGED xvars
    /\ UNCHANGED eof
    /\ AtElement
    /\ chain.tag = "Command"
    /\ command.bin = "exit"
    /\ history' = history \o history_push(chain)
    /\ LET code == exit_code(command.args)
       IN  IF code.ok THEN ProcessExit(code.val) ELSE MainErr
    /\ UNCHANGED <<pwd, buf, chains, idx, printed, spawned, nlines>>

RunHistory ==
    /\ UNCHANGED xvars
    /\ UNCHANGED eof
    /\ AtElement
    /\ chain.tag = "Command"
    /\ command.bin = "history"
    /\ history' = history \o history_push(chain)
    /\ printed' = printed \o history_listing(history')
    /\ NextElement
    /\ UNCHANGED <<pwd, buf, chains, spawned, nlines>>

RunExternal ==
    /\ UNCHANGED xvars
    /\ UNCHANGED eof
    /\ AtElement
    /\ chain.tag = "Command"
    /\ command.bin \notin {"cd", "exit", "history"}
    /\ history' = history \o history_push(chain)
    /\ \E res \in ExecResults :
          /\ spawned' = Append(spawned, ExecRecord(command, pwd, NoInput, res))
          /\ LET p == print_output(res)
             IN  /\ printed' = printed \o p.text
                 /\ IF p.fail THEN RunErr ELSE NextElement
    /\ UNCHANGED <<pwd, buf, chains, nlines>>

\* cmd1.execute(&self.pwd, None)? fails: cmd2 is not executed
RunPipedFirstFail ==
    /\ UNCHANGED xvars
    /\ UNCHANGED eof
    /\ AtElement
    /\ chain.tag = "Piped"
    /\ history' = history \o history_push(chain)
    /\ \E r1 \in ExecResults :
          /\ r1.tag # "Ok"
          /\ spawned' = Append(spawned, ExecRecord(chain.cmds[1], pwd, NoInput, r1))
    /\ RunErr
    /\ UNCHANGED <<pwd, buf, chains, printed, nlines>>

\* a second stage that is executed without input
piped_input_none(output1) == NoInput

\* the `input` of cmd2.execute for the output of cmd1
piped_input(output1) == SomeInput(output1)

\* a Piped arm that handles a `cd` first stage as the builtin
RunPiped_builtin ==
    /\ UNCHANGED xvars
    /\ UNCHANGED eof
    /\ AtElement
    /\ chain.tag = "Piped"
    /\ history' = history \o history_push(chain)
    /\ \E r1, r2 \in ExecResults :
          /\ r1.tag = "Ok"
          /\ spawned' = spawned \o
                << ExecRecord(chain.cmds[1], pwd, NoInput, r1),
                   ExecRecord(chain.cmds[2], pwd, piped_input(r1.out), r2) >>
          /\ IF r2.tag # "Ok"
             THEN /\ RunErr
                  /\ UNCHANGED printed
             ELSE LET p == print_output(r2)
                  IN  /\ printed' = printed \o p.text
                      /\ IF p.fail THEN RunErr ELSE NextElement
    /\ pwd' = IF /\ chain.cmds[1].bin = "cd"
                 /\ chain.cmds[1].args # <<>>
                 /\ Canonicalize(pwd, chain.cmds[1].args[1]) # CanonErr
              THEN Canonicalize(pwd, chain.cmds[1].args[1])
              ELSE pwd
    /\ UNCHANGED <<buf, chains, nlines>>

\* cmd1 succeeds and cmd2 is executed with the output of cmd1 as input
RunPiped ==
    /\ UNCHANGED xvars
    /\ UNCHANGED eof
    /\ AtElement
    /\ chain.tag = "Piped"
    /\ history' = history \o history_push(chain)
    /\ \E r1, r2 \in ExecResults :
          /\ r1.tag = "Ok"
          /\ spawned' = spawned \o
                << ExecRecord(chain.cmds[1], pwd, NoInput, r1),
                   ExecRecord(chain.cmds[2], pwd, piped_input(r1.out), r2) >>
          /\ IF r2.tag # "Ok"
             THEN /\ RunErr
                  /\ UNCHANGED printed
             ELSE LET p == print_output(r2)
                  IN  /\ printed' = printed \o p.text
                      /\ IF p.fail THEN RunErr ELSE NextElement
    /\ UNCHANGED <<pwd, buf, chains, nlines>>

\* the for loop is over: run returns Ok(()) and main loops
RunReturn ==
    /\ UNCHANGED xvars
    /\ UNCHANGED eof
    /\ pc = "Dispatch"
    /\ idx > Len(chains)
    /\ pc' = "Prompt"
    /\ UNCHANGED <<pwd, history, buf, chains, idx, printed, spawned, term, exitCode, nlines>>

(***************************************************************************)
(* Command::execute step by step: the parent (the shell) and the child     *)
(* run concurrently and share two pipes of PipeCap bytes.                  *)
(*                                                                         *)
(* Programs of the child: "source" writes its output and exits (echo);     *)
(* "sink" reads to the end of input, writes its output and exits (wc);     *)
(* "filter" copies its input to its output byte by byte and exits at the   *)
(* end of input (cat); "quitter" exits at once (true).                     *)
(***************************************************************************)
Kinds == {"source", "sink", "filter", "quitter"}

Bytes(n) == [ i \in 1..n |-> i ]

\* the inputs of execute: None, or Some bytes, up to more than both pipes hold
Inputs == {NoInput} \cup { SomeInput(Bytes(n)) : n \in 0..(2 * PipeCap + 2) }

\* the outputs of a source, up to more than a pipe holds
Payloads == { Bytes(n) : n \in 0..(PipeCap + 1) }

mainvars == <<pc, pwd, history, buf, chains, idx, printed, spawned, term,
              exitCode, nlines, eof>>

\* run calls execute for a command of a chain element
XInit ==
    /\ pc = "Dispatch"
    /\ pwd = StartDir
    /\ history = <<>>
    /\ buf = <<>>
    /\ chains = <<ChainPiped(Command("echo", <<"a">>), Command("wc", <<>>))>>
    /\ idx = 1
    /\ printed = <<PROMPT>>
    /\ spawned = <<>>
    /\ term = "none"
    /\ exitCode = 0
    /\ nlines = 1
    /\ eof = FALSE
    /\ xpc = "spawn"
    /\ xinput \in Inputs
    /\ toWrite = <<>>
    /\ stdinPipe = <<>>
    /\ stdinOpen = FALSE
    /\ stdoutPipe = <<>>
    /\ collected = <<>>
    /\ child = NoChild
    /\ xres = "none"

\* the child holds its ends of the pipes as long as it runs
ChildRuns == child.life = "running"

\* the parent holds the read end of the output pipe until execute returns
ParentHoldsStdout == xpc \in {"write", "wait", "read", "reap"}

\* spawn() succeeds
XSpawn ==
    /\ xpc = "spawn"
    /\ \E k \in Kinds, payload \in Payloads :
          child' = ChildProc(k, "running", <<>>, FALSE,
                             IF k = "source" THEN payload ELSE <<>>)
    /\ stdinOpen' = TRUE
    /\ IF xinput = NoInput
       THEN /\ xpc' = "wait"
            /\ UNCHANGED toWrite
       ELSE /\ xpc' = "write"
            /\ toWrite' = xinput[2]
    /\ UNCHANGED <<stdinPipe, stdoutPipe, collected, xinput, xres, mainvars>>

\* spawn()? fails: execute returns Err
XSpawnFail ==
    /\ xpc = "spawn"
    /\ xpc' = "failed"
    /\ xres' = "SpawnErr"
    /\ UNCHANGED <<toWrite, stdinPipe, stdinOpen, stdoutPipe, collected, xinput,
                   child, mainvars>>

\* stdin.write_all(&input): one more byte fits into the pipe
XWrite ==
    /\ xpc = "write"
    /\ toWrite # <<>>
    /\ ChildRuns
    /\ Len(stdinPipe) < PipeCap
    /\ stdinPipe' = Append(stdinPipe, Head(toWrite))
    /\ toWrite' = Tail(toWrite)
    /\ UNCHANGED <<xpc, stdinOpen, stdoutPipe, collected, xinput, child, xres,
                   mainvars>>

\* stdin.write_all(&input)?: the child has closed its end (broken pipe);
\* execute returns Err, which drops stdin and the Child without waiting
XWriteFail ==
    /\ xpc = "write"
    /\ toWrite # <<>>
    /\ ~ChildRuns
    /\ stdinOpen' = FALSE
    /\ xpc' = "failed"
    /\ xres' = "IoErr"
    /\ UNCHANGED <<toWrite, stdinPipe, stdoutPipe, collected, xinput, child,
                   mainvars>>

\* the end of the `if let Some(mut stdin)` block drops stdin
XClose ==
    /\ xpc = "write"
    /\ toWrite = <<>>
    /\ stdinOpen' = FALSE
    /\ xpc' = "wait"
    /\ UNCHANGED <<toWrite, stdinPipe, stdoutPipe, collected, xinput, child, xres,
                   mainvars>>

\* a wait_with_output that keeps the standard input of the child open
XWaitClose_keep ==
    /\ xpc = "wait"
    /\ xpc' = "read"
    /\ UNCHANGED <<toWrite, stdinPipe, stdinOpen, stdoutPipe, collected, xinput,
                   child, xres, mainvars>>

\* wait_with_output begins: it drops the stdin of the Child if still there
XWaitClose ==
    /\ xpc = "wait"
    /\ stdinOpen' = FALSE
    /\ xpc' = "read"
    /\ UNCHANGED <<toWrite, stdinPipe, stdoutPipe, collected, xinput, child, xres,
                   mainvars>>

\* a parent that also drains the output of the child while it writes
XReadByte_concurrent ==
    /\ xpc \in {"write", "read"}
    /\ stdoutPipe # <<>>
    /\ collected' = Append(collected, Head(stdoutPipe))
    /\ stdoutPipe' = Tail(stdoutPipe)
    /\ UNCHANGED <<xpc, toWrite, stdinPipe, stdinOpen, xinput, child, xres,
                   mainvars>>

\* wait_with_output reads the output of the child to its end
XReadByte ==
    /\ xpc = "read"
    /\ stdoutPipe # <<>>
    /\ collected' = Append(collected, Head(stdoutPipe))
    /\ stdoutPipe' = Tail(stdoutPipe)
    /\ UNCHANGED <<xpc, toWrite, stdinPipe, stdinOpen, xinput, child, xres,
                   mainvars>>

\* the output pipe is empty and the child has closed it: end of output
XReadEof ==
    /\ xpc = "read"
    /\ stdoutPipe = <<>>
    /\ ~ChildRuns
    /\ xpc' = "reap"
    /\ UNCHANGED <<toWrite, stdinPipe, stdinOpen, stdoutPipe, collected, xinput,
                   child, xres, mainvars>>

\* wait() reaps the child: execute returns Ok(Some(output.stdout))
XReap ==
    /\ xpc = "reap"
    /\ child.life = "exited"
    /\ child' = [child EXCEPT !.life = "reaped"]
    /\ xpc' = "done"
    /\ xres' = "Ok"
    /\ UNCHANGED <<toWrite, stdinPipe, stdinOpen, stdoutPipe, collected, xinput,
                   mainvars>>

\* wait()? fails: execute returns Err
XReapFail ==
    /\ xpc = "reap"
    /\ xpc' = "failed"
    /\ xres' = "IoErr"
    /\ UNCHANGED <<toWrite, stdinPipe, stdinOpen, stdoutPipe, collected, xinput,
                   child, mainvars>>

\* the child reads a byte of its standard input
ChildRead ==
    /\ ChildRuns
    /\ child.kind \in {"sink", "filter"}
    /\ ~child.sawEof
    /\ child.out = <<>>
    /\ stdinPipe # <<>>
    /\ stdinPipe' = Tail(stdinPipe)
    /\ child' = [child EXCEPT !.got = Append(@, Head(stdinPipe)),
                              !.out = IF child.kind = "filter"
                                      THEN <<Head(stdinPipe)>> ELSE <<>>]
    /\ UNCHANGED <<xpc, toWrite, stdinOpen, stdoutPipe, collected, xinput, xres,
                   mainvars>>

\* the child reads the end of input: the pipe is empty and the parent has
\* closed it; a sink then has its output to write (the count of its input)
ChildReadEof ==
    /\ ChildRuns
    /\ child.kind \in {"sink", "filter"}
    /\ ~child.sawEof
    /\ child.out = <<>>
    /\ stdinPipe = <<>>
    /\ ~stdinOpen
    /\ child' = [child EXCEPT !.sawEof = TRUE,
                              !.out = IF child.kind = "sink"
                                      THEN <<Len(child.got)>> ELSE <<>>]
    /\ UNCHANGED <<xpc, toWrite, stdinPipe, stdinOpen, stdoutPipe, collected,
                   xinput, xres, mainvars>>

\* the child writes a byte of its output
ChildWrite ==
    /\ ChildRuns
    /\ child.out # <<>>
    /\ ParentHoldsStdout
    /\ Len(stdoutPipe) < PipeCap
    /\ stdoutPipe' = Append(stdoutPipe, Head(child.out))
    /\ child' = [child EXCEPT !.out = Tail(@)]
    /\ UNCHANGED <<xpc, toWrite, stdinPipe, stdinOpen, collected, xinput, xres,
                   mainvars>>

\* the child has nothing left to do, or writes to a pipe that the parent
\* has dropped: it exits, which closes its ends of the pipes
ChildExit ==
    /\ ChildRuns
    /\ \/ child.kind = "quitter"
       \/ child.kind = "source" /\ child.out = <<>>
       \/ child.kind \in {"sink", "filter"} /\ child.sawEof /\ child.out = <<>>
       \/ child.out # <<>> /\ ~ParentHoldsStdout
    /\ child' = [child EXCEPT !.life = "exited"]
    /\ UNCHANGED <<xpc, toWrite, stdinPipe, stdinOpen, stdoutPipe, collected,
                   xinput, xres, mainvars>>

XNext ==
    \/ XSpawn
    \/ XSpawnFail
    \/ XWrite
    \/ XWriteFail
    \/ XClose
    \/ XWaitClose
    \/ XReadByte
    \/ XReadEof
    \/ XReap
    \/ XReapFail
    \/ ChildRead
    \/ ChildReadEof
    \/ ChildWrite
    \/ ChildExit

SpecExec == XInit /\ [][XNext]_vars

\* the parent and the child are scheduled
SpecExecFair == SpecExec /\ WF_vars(XNext)

Next ==
    \/ ShowPrompt
    \/ ShowPromptFail
    \/ ReadLine
    \/ ReadEof
    \/ ReadFail
    \/ Parse
    \/ RunCd
    \/ RunExit
    \/ RunHistory
    \/ RunExternal
    \/ RunPipedFirstFail
    \/ RunPiped
    \/ RunReturn

Spec == Init /\ [][Next]_vars

\* the process is scheduled: main takes its next step whenever it has one
SpecFair == Spec /\ WF_vars(Next)

TypeOK ==
    /\ pc \in {"Prompt", "ReadLine", "Parse", "Dispatch", "Terminated"}
    /\ pwd \in {"/", "/a"}
    /\ term \in {"none", "exit", "err"}
    /\ (pc = "Terminated") <=> (term # "none")
    /\ nlines \in 0..MaxLines
    /\ eof \in BOOLEAN

(***************************************************************************)
(* Vocabulary of the properties                                            *)
(***************************************************************************)
Builtins == {"cd", "exit", "history"}

AtSingle(bin) ==
    /\ AtElement
    /\ chain.tag = "Command"
    /\ command.bin = bin

AtExternal ==
    /\ AtElement
    /\ chain.tag = "Command"
    /\ command.bin \notin Builtins

AtPiped ==
    /\ AtElement
    /\ chain.tag = "Piped"

\* the step goes on with the next chain element of the line
Continues ==
    /\ pc' = "Dispatch"
    /\ term' = "none"
    /\ idx' = idx + 1
    /\ chains' = chains

\* the i32 literals among the words of the input lines, and their values
I32Words == {"0", "3"}
I32WordValue(w) == IF w = "3" THEN 3 ELSE 0

WellFormedExit(args) == args = <<>> \/ args[1] \in I32Words

BadCdTarget ==
    /\ AtSingle("cd")
    /\ command.args # <<>>
    /\ command.args[1] \notin {"a", "..", "/"} \/ (command.args[1] = "a" /\ pwd # "/")

\* the step spawned n children and the last of them failed
SpawnedAndFailed(n) ==
    /\ Len(spawned') = Len(spawned) + n
    /\ spawned'[Len(spawned')].res.tag \in {"SpawnErr", "IoErr"}

\* a segment is blank, or has more than one `|`
PipeCount(seg) == Cardinality({ i \in 1..Len(seg) : seg[i] = "|" })
BlankSegment(seg) == \A i \in 1..Len(seg) : seg[i] \in {" ", "\n", "\t"}
BadSegment(seg) == BlankSegment(seg) \/ PipeCount(seg) > 1
SegmentsOf(line) == SplitTerminator(Trim(line), ";")
HasBadSegment(line) ==
    \E i \in 1..Len(SegmentsOf(line)) : BadSegment(SegmentsOf(line)[i])

\* the textual form of a command, and the lines of a listing of entries
TextOf(c) ==
    <<c.bin, " ">> \o
    [ i \in 1..(2 * Len(c.args) - 1) |->
        IF i % 2 = 1 THEN c.args[(i + 1) \div 2] ELSE " " ]

RECURSIVE ListingOf(_)
ListingOf(entries) ==
    IF entries = <<>> THEN <<>>
    ELSE ListingOf(Front(entries)) \o Last(entries) \o <<"\n">>

\* the commands of the children that the elements before position i spawn
RECURSIVE SpawnsBefore(_)
SpawnsBefore(i) ==
    IF i <= 1 THEN <<>>
    ELSE SpawnsBefore(i - 1) \o
         ( IF chains[i - 1].tag = "Piped" THEN chains[i - 1].cmds
           ELSE IF chains[i - 1].cmds[1].bin \in Builtins THEN <<>>
           ELSE chains[i - 1].cmds )

SpawnedCmds == [ i \in 1..Len(spawned) |-> spawned[i].cmd ]

(***************************************************************************)
(* Properties                                                              *)
(***************************************************************************)

\* C1: a `cd` whose target cannot be canonicalized fails locally: the
\* process does not terminate, the working directory is unchanged and the
\* next chain element of the line is dispatched.
C1_CdFailureIsLocal ==
    [][ BadCdTarget => (Continues /\ pwd' = pwd) ]_vars

\* C2: while a line is dispatched the process ends only through a
\* well-formed `exit` builtin: no failure of `cd`, of an `exit` argument, of
\* a pipe stage, of an external command or of printing ends the loop.
C2_OnlyExitEndsDispatch ==
    [][ (pc = "Dispatch" /\ term' # "none")
          => (AtSingle("exit") /\ WellFormedExit(command.args) /\ term' = "exit") ]_vars

\* C3: a line with a segment that is blank or has more than one `|` is
\* discarded as a whole: the driver goes from Parse to Prompt, no element is
\* handed to run, and history, working directory, output and children are
\* unchanged.
C3_BadLineDiscarded ==
    [][ (pc = "Parse" /\ HasBadSegment(buf))
          => (pc' = "Prompt" /\ term' = "none"
              /\ UNCHANGED <<history, pwd, printed, spawned, chains, idx>>) ]_vars

C3_Witness ==
    /\ pc = "Prompt"
    /\ nlines = 2
    /\ HasBadSegment(buf)
    /\ ~BadSegment(SegmentsOf(buf)[1])
    /\ history # <<>>
    /\ printed = <<PROMPT>>

\* C4 (as stated): the `history` builtin prints exactly the entries
\* recorded before the `history` command itself.
C4_HistoryOmitsItself ==
    [][ AtSingle("history") => printed' = printed \o ListingOf(history) ]_vars

\* C4 (amended): the `history` builtin prints every entry recorded so far,
\* oldest first, one per line, and the entry of the `history` command itself
\* is the last line of the listing.
C4_HistoryListsItself ==
    [][ AtSingle("history")
          => /\ printed' = printed \o ListingOf(history) \o TextOf(command) \o <<"\n">>
             /\ Continues ]_vars

C4_Witness ==
    /\ pc = "Dispatch"
    /\ idx = 2
    /\ chains = <<ChainCommand(Command("history", <<>>))>>
    /\ history = << <<"echo", " ", "a">>, <<"echo", " ", "a">>, <<"history", " ">> >>
    /\ printed = <<PROMPT, "echo", " ", "a", "\n", "echo", " ", "a", "\n", "history", " ", "\n">>

\* C5: every command of a dispatched chain element, the two commands of a
\* Piped element included, is appended to history in its textual form.
C5_EveryCommandRecorded ==
    [][ AtElement
          => history' = history \o [ i \in 1..Len(chain.cmds) |-> TextOf(chain.cmds[i]) ] ]_vars

\* C6: a Single `exit` with no argument or with an i32 literal N ends the
\* process with code 0, respectively N; the elements before it have been
\* executed, nothing is spawned or printed by it, and a terminated process
\* takes no further step.
C6_ExitTerminates ==
    [][ /\ pc # "Terminated"
        /\ (AtSingle("exit") /\ WellFormedExit(command.args))
             => /\ term' = "exit"
                /\ pc' = "Terminated"
                /\ exitCode' = (IF command.args = <<>> THEN 0
                                ELSE I32WordValue(command.args[1]))
                /\ SpawnedCmds = SpawnsBefore(idx)
                /\ UNCHANGED <<idx, chains, spawned, printed, pwd, nlines>> ]_vars

C6_Witness ==
    /\ term = "exit"
    /\ exitCode = 3
    /\ idx = 2
    /\ Len(chains) = 3
    /\ Len(spawned) = 1
    /\ spawned[1].cmd = chains[1].cmds[1]

\* C7: a `cd` without a path and an `exit` whose argument is not an integer
\* fail locally: the process does not terminate, the working directory is
\* unchanged and the next chain element of the line is dispatched.
C7_ArgumentErrorIsLocal ==
    [][ ( \/ AtSingle("cd") /\ command.args = <<>>
          \/ AtSingle("exit") /\ ~WellFormedExit(command.args) )
          => (Continues /\ pwd' = pwd) ]_vars

\* C8: when the second stage of a Piped element fails, the output of the
\* element is discarded, the next chain element is dispatched and the shell
\* keeps running.
C8_SecondStageFailureIsLocal ==
    [][ (AtPiped /\ SpawnedAndFailed(2))
          => (Continues /\ printed' = printed) ]_vars

\* C9: when the first stage of a Piped element fails, the second stage is
\* not spawned, no later element of the line is dispatched, nothing is
\* printed, and the driver is back at Prompt.
C9_FirstStageFailureAbortsLine ==
    [][ (AtPiped /\ SpawnedAndFailed(1))
          => (pc' = "Prompt" /\ term' = "none" /\ printed' = printed) ]_vars

\* C10: when a Single non-builtin command fails to spawn or fails with an
\* I/O error, nothing is printed, the session state apart from the new
\* history entry is unchanged and the next chain element is dispatched.
C10_ExternalErrorSuppressed ==
    [][ (AtExternal /\ SpawnedAndFailed(1))
          => /\ Continues
             /\ printed' = printed
             /\ pwd' = pwd
             /\ history' = Append(history, TextOf(command)) ]_vars

C10_Witness ==
    /\ pc = "Dispatch"
    /\ term = "none"
    /\ idx = 3
    /\ chains[1].tag = "Command"
    /\ Len(spawned) = 2
    /\ spawned[1].res.tag = "SpawnErr"
    /\ spawned[2].res.tag = "Ok"
    /\ spawned[2].res.out = <<"a", "\n">>
    /\ printed = <<PROMPT, "a", "\n">>

\* C11: once the standard input is exhausted the program ends with a
\* non-zero exit code: it does not go on prompting and reading for ever.
C11_EofEndsProgram ==
    eof ~> (pc = "Terminated" /\ exitCode # 0)

\* the directory a `cd` element leads to: the first argument, resolved
\* against the working directory, when that is an existing directory
GoodCd ==
    /\ AtSingle("cd")
    /\ command.args # <<>>
    /\ ~BadCdTarget

CdTarget == IF command.args[1] = "a" THEN "/a" ELSE "/"

\* C12: a successful `cd` replaces the working directory by the canonical
\* form of the argument joined to the previous working directory, and no
\* other step changes the working directory.
C12_OnlyCdChangesPwd ==
    [][ /\ GoodCd => (pwd' = CdTarget /\ Continues)
        /\ ~GoodCd => pwd' = pwd ]_vars

C12_Witness ==
    /\ pc = "Dispatch"
    /\ idx = 2
    /\ nlines = 2
    /\ chains = <<ChainCommand(Command("cd", <<"..">>))>>
    /\ history = << <<"cd", " ", "a">>, <<"cd", " ", "..">> >>
    /\ pwd = "/"

\* C13: a `cd` element with no argument or with two or more arguments is
\* an error and leaves the working directory unchanged.
C13_CdNeedsOneArgument ==
    [][ (AtSingle("cd") /\ Len(command.args) # 1) => pwd' = pwd ]_vars

\* the records of the children that the step spawned
NewSpawns == SubSeq(spawned', Len(spawned) + 1, Len(spawned'))

\* C14: the stages of a Piped element are spawned as external commands
\* whatever their names: the element does not change the working
\* directory, does not end the process through the `exit` builtin, and
\* prints nothing but the output of its second stage.
C14_NoBuiltinInPipe ==
    [][ AtPiped
          => /\ pwd' = pwd
             /\ term' # "exit"
             /\ Len(NewSpawns) \in {1, 2}
             /\ \A i \in 1..Len(NewSpawns) : NewSpawns[i].cmd = chain.cmds[i]
             /\ \/ printed' = printed
                \/ /\ Len(NewSpawns) = 2
                   /\ printed' = printed \o NewSpawns[2].res.out ]_vars

C14_Witness ==
    /\ pc = "Dispatch"
    /\ term = "none"
    /\ idx = 2
    /\ nlines = 2
    /\ chains = <<ChainPiped(Command("cd", <<"a">>), Command("exit", <<>>))>>
    /\ Len(spawned) = 2
    /\ spawned[1].cmd.bin = "cd"
    /\ spawned[2].cmd.bin = "exit"
    /\ history = << <<"echo", " ", "a">> >>
    /\ printed = <<PROMPT>>
    /\ pwd = "/"

\* both stages of the Piped element of the step returned Ok
BothStagesOk ==
    /\ AtPiped
    /\ Len(NewSpawns) = 2
    /\ NewSpawns[1].res.tag = "Ok"
    /\ NewSpawns[2].res.tag = "Ok"

ValidText(bytes) == "0xFF" \notin { bytes[i] : i \in 1..Len(bytes) }

\* C15 (as stated): when both stages of a Piped element succeed, the input
\* of the second stage is the output of the first, and what is printed is
\* exactly the output of the second stage.
C15_PipePrintsSecondOutput ==
    [][ BothStagesOk
          => /\ NewSpawns[1].input = <<"None">>
             /\ NewSpawns[2].input = <<"Some", NewSpawns[1].res.out>>
             /\ printed' = printed \o NewSpawns[2].res.out ]_vars

\* C15 (amended): when both stages of a Piped element succeed, the input of
\* the second stage is the output of the first, byte for byte; the output
\* of the second stage is printed when it is valid UTF-8, and nothing is
\* printed when it is not; the output of the first stage is not printed.
C15_PipePrintsSecondText ==
    [][ BothStagesOk
          => /\ NewSpawns[1].input = <<"None">>
             /\ NewSpawns[2].input = <<"Some", NewSpawns[1].res.out>>
             /\ printed' = IF ValidText(NewSpawns[2].res.out)
                           THEN printed \o NewSpawns[2].res.out
                           ELSE printed ]_vars

C15_Witness ==
    /\ pc = "Dispatch"
    /\ term = "none"
    /\ idx = 2
    /\ chains[1].tag = "Piped"
    /\ Len(spawned) = 2
    /\ spawned[1].res = [tag |-> "Ok", out |-> <<"0xFF">>, child |-> "reaped"]
    /\ spawned[2].input = <<"Some", <<"0xFF">> >>
    /\ spawned[2].res = [tag |-> "Ok", out |-> <<"a", "\n">>, child |-> "reaped"]
    /\ printed = <<PROMPT, "a", "\n">>

\* C16: an empty line parses to zero chain elements, and dispatching it
\* prints nothing, appends nothing to history, leaves the working directory
\* unchanged, spawns nothing and returns to Prompt.
C16_EmptyLineDoesNothing ==
    [][ /\ (pc = "Parse" /\ buf \in {<<>>, <<"\n">>})
            => (pc' = "Dispatch" /\ chains' = <<>> /\ idx' = 1
                /\ UNCHANGED <<history, pwd, printed, spawned, term>>)
        /\ (pc = "Dispatch" /\ chains = <<>>)
            => (pc' = "Prompt"
                /\ UNCHANGED <<history, pwd, printed, spawned, term>>) ]_vars

C16_Witness ==
    /\ pc = "Prompt"
    /\ term = "none"
    /\ nlines = 2
    /\ buf = <<"\n">>
    /\ chains = <<>>
    /\ history = << <<"cd", " ", "a">> >>
    /\ pwd = "/a"
    /\ printed = <<PROMPT>>
    /\ spawned = <<>>

\* the parent is blocked in write_all on the full input pipe and has not
\* begun to read; the child is blocked writing to the full output pipe
Deadlocked ==
    /\ xpc = "write"
    /\ toWrite # <<>>
    /\ Len(stdinPipe) = PipeCap
    /\ ChildRuns
    /\ child.out # <<>>
    /\ Len(stdoutPipe) = PipeCap

\* C17: execute can deadlock: once the parent is blocked writing the rest of
\* the input while the child is blocked writing to its full output pipe, which
\* the parent has not begun to read, no step of either is ever taken.
C17_DeadlockIsStuck ==
    [][ ~Deadlocked ]_vars

C17_Witness ==
    /\ Deadlocked
    /\ child.kind = "filter"
    /\ xres = "none"

\* execute has returned
Returned == xpc \in {"done", "failed"}

\* execute does not return while the child it spawned runs
ExecReturnsAfterChildEnds == Returned => ~ChildRuns

IsPrefix(s, t) == Len(s) <= Len(t) /\ SubSeq(t, 1, Len(s)) = s

C20_ChildReapedOnReturn ==
    Returned => child.life \in {"none", "reaped"}

====
